---- MODULE Spec2Model ----
(***************************************************************************)
(* A model of the Zom<T> container (src/src/lib.rs): a collection of zero, *)
(* one or many elements, and of its consuming iterator IntoIter<T>.        *)
(*                                                                         *)
(* A container is a record with a tag; Vec<T> is a record of its buffer    *)
(* (the elements, in order) and its capacity.  Operations whose result     *)
(* depends on what the allocator hands out (capacities) are sets of        *)
(* possible outcomes.                                                      *)
(***************************************************************************)
EXTENDS Integers, Sequences, FiniteSets, TLC

\* ------------------------------------------------------------- bounds
\* Elements are the integers 0..MaxVal.
MaxVal == 1
\* The container never holds more than MaxLen elements (guards of the actions).
MaxLen == 3
\* Input sequences of extend / from_iter, and the contents of the containers
\* passed by reference (clone_from's src, the other side of a comparison),
\* have at most MaxIn elements.
MaxIn == 2
\* An allocation asked for n elements gets a capacity in n..n+MaxSlack.
MaxSlack == 1

Val == 0 .. MaxVal

SeqsUpTo(n) == UNION {[1 .. k -> Val] : k \in 0 .. n}

Inputs == SeqsUpTo(MaxIn)

\* ------------------------------------------------------------- Option<T>
None == [some |-> FALSE]

Some(x) == [some |-> TRUE, val |-> x]

\* ------------------------------------------------------------- Vec<T>
\* The capacities an allocation for `need` elements may get.
Alloc(need) == need .. (need + MaxSlack)

\* vec![]
VecNew == [buf |-> <<>>, cap |-> 0]

\* vec![one]
VecOf(one) == [buf |-> <<one>>, cap |-> 1]

\* Vec::with_capacity(n)
VecWithCapacity(n) == {[buf |-> <<>>, cap |-> c] : c \in Alloc(n)}

\* Vec::reserve(additional): nothing when the capacity suffices.
VecReserve(v, additional) ==
    IF v.cap >= Len(v.buf) + additional
    THEN {v}
    ELSE {[v EXCEPT !.cap = c] : c \in Alloc(Len(v.buf) + additional)}

\* Vec::push(val)
VecPush(v, val) ==
    {[w EXCEPT !.buf = Append(w.buf, val)] : w \in VecReserve(v, 1)}

\* Vec::extend(iter): pushes the items one by one.
RECURSIVE VecExtend(_, _)
VecExtend(v, xs) ==
    IF xs = <<>>
    THEN {v}
    ELSE UNION {VecExtend(w, Tail(xs)) : w \in VecPush(v, Head(xs))}

\* Vec::pop()
VecPop(v) ==
    IF v.buf = <<>>
    THEN [vec |-> v, ret |-> None]
    ELSE [vec |-> [v EXCEPT !.buf = SubSeq(v.buf, 1, Len(v.buf) - 1)],
          ret |-> Some(v.buf[Len(v.buf)])]

\* Vec::clear(): the capacity is kept.
VecClear(v) == [v EXCEPT !.buf = <<>>]

\* Vec::shrink_to_fit(): the capacity drops towards the length.
VecShrinkToFit(v) ==
    {[v EXCEPT !.cap = c] : c \in {d \in Alloc(Len(v.buf)) : d <= v.cap}}

\* Vec::clone(): a fresh allocation for the elements.
VecClone(v) == {[buf |-> v.buf, cap |-> c] : c \in Alloc(Len(v.buf))}

\* Vec::clone_from(src): the elements of src in the allocation of v, grown when
\* it is too small.
VecCloneFrom(v, src) ==
    {[w EXCEPT !.buf = src.buf] :
        w \in IF v.cap >= Len(src.buf)
              THEN {v}
              ELSE {[v EXCEPT !.cap = c] : c \in Alloc(Len(src.buf))}}

\* ------------------------------------------------------------- Zom<T>
Zero == [tag |-> "Zero"]

One(x) == [tag |-> "One", one |-> x]

Many(v) == [tag |-> "Many", many |-> v]

\* take that hands out the state and leaves it in place as well.
take_leaves_state(z) == [z |-> z, ret |-> z]

\* Zom::take: mem::replace(self, Zom::Zero)
take(z) == [z |-> Zero, ret |-> z]

\* Deref::deref: the slice view.
deref(z) ==
    CASE z.tag = "Zero" -> <<>>
      [] z.tag = "One" -> <<z.one>>
      [] z.tag = "Many" -> z.many.buf

\* Zom::iter, cloned: the items self.deref().iter().cloned() yields, which are
\* the elements of the slice view from the first to the last.
iter_cloned(z) == [i \in 1 .. Len(deref(z)) |-> deref(z)[i]]

\* Zom::to_vec: the container forced into the Many variant.
to_vec(z) ==
    LET t == take(z)
        vec == CASE t.ret.tag = "Zero" -> VecNew
                 [] t.ret.tag = "One" -> VecOf(t.ret.one)
                 [] t.ret.tag = "Many" -> t.ret.many
    IN  Many(vec)

\* push that overwrites a single element instead of growing into a Vec.
push_overwrites_one(z, val) ==
    IF z.tag = "Zero" \/ z.tag = "One"
    THEN {One(val)}
    ELSE {Many(w) : w \in VecPush(z.many, val)}

\* push that picks the variant by the number of elements held: an empty Many
\* becomes One.
push_by_length(z, val) ==
    IF deref(z) = <<>>
    THEN {One(val)}
    ELSE {Many(w) : w \in VecPush(to_vec(z).many, val)}

\* push that always goes through the Vec, also on an empty container.
push_always_vec(z, val) == {Many(w) : w \in VecPush(to_vec(z).many, val)}

\* Zom::push
push(z, val) ==
    IF z.tag = "Zero"
    THEN {One(val)}
    ELSE {Many(w) : w \in VecPush(to_vec(z).many, val)}

\* pop that collapses a Vec left with no element to Zero.
pop_collapses(z) ==
    CASE z.tag = "Zero" -> [z |-> Zero, ret |-> None]
      [] z.tag = "One" -> [z |-> Zero, ret |-> Some(z.one)]
      [] z.tag = "Many" ->
            LET p == VecPop(z.many)
            IN  [z |-> IF p.vec.buf = <<>> THEN Zero ELSE Many(p.vec), ret |-> p.ret]

\* pop that returns early when the Vec has nothing to pop, before the Vec is
\* written back.
pop_early_return(z) ==
    CASE z.tag = "Zero" -> [z |-> Zero, ret |-> None]
      [] z.tag = "One" -> [z |-> Zero, ret |-> Some(z.one)]
      [] z.tag = "Many" ->
            IF z.many.buf = <<>>
            THEN [z |-> Zero, ret |-> None]
            ELSE [z |-> Many(VecPop(z.many).vec), ret |-> VecPop(z.many).ret]

\* Zom::pop
pop(z) ==
    LET t == take(z)
    IN  CASE t.ret.tag = "Zero" -> [z |-> t.z, ret |-> None]
          [] t.ret.tag = "One" -> [z |-> t.z, ret |-> Some(t.ret.one)]
          [] t.ret.tag = "Many" ->
                LET p == VecPop(t.ret.many)
                IN  [z |-> Many(p.vec), ret |-> p.ret]

\* clear that only clears a Vec: a single element is kept.
clear_only_vec(z) == IF z.tag = "Many" THEN Many(VecClear(z.many)) ELSE z

\* Zom::clear
clear(z) ==
    CASE z.tag = "Many" -> Many(VecClear(z.many))
      [] z.tag = "One" -> Zero
      [] z.tag = "Zero" -> z

\* shrink_to_fit that only shrinks the Vec and never changes the variant.
shrink_to_fit_keeps_variant(z) ==
    IF z.tag = "Many"
    THEN {Many(w) : w \in VecShrinkToFit(z.many)}
    ELSE {z}

\* shrink_to_fit that writes back only what it rebuilt: a Zero or One taken out
\* is not restored.
shrink_to_fit_forgets_restore(z) ==
    IF z.tag = "Many"
    THEN CASE Len(z.many.buf) = 0 -> {Zero}
           [] Len(z.many.buf) = 1 -> {One(Head(z.many.buf))}
           [] OTHER -> {Many(w) : w \in VecShrinkToFit(z.many)}
    ELSE {Zero}

\* Zom::shrink_to_fit
shrink_to_fit(z) ==
    LET t == take(z)
    IN  IF t.ret.tag = "Many"
        THEN CASE Len(t.ret.many.buf) = 0 -> {Zero}
               [] Len(t.ret.many.buf) = 1 -> {One(Head(t.ret.many.buf))}
               [] OTHER -> {Many(w) : w \in VecShrinkToFit(t.ret.many)}
        ELSE {t.ret}

\* The lower bounds size_hint() may report for an iterator with `rest` left.
SizeHints(rest) == 0 .. Len(rest)

\* clone as #[derive(Clone)] would give it: the variant of the source is kept.
clone_derived(z) ==
    IF z.tag = "Many" THEN {Many(w) : w \in VecClone(z.many)} ELSE {z}

\* Clone::clone
clone(z) ==
    CASE z.tag = "Zero" -> {Zero}
      [] z.tag = "One" -> {One(z.one)}
      [] z.tag = "Many" ->
            CASE Len(z.many.buf) = 0 -> {Zero}
              [] Len(z.many.buf) = 1 -> {One(z.many.buf[1])}
              [] OTHER -> {Many(w) : w \in VecClone(z.many)}

\* clone_from as the default method of Clone: *self = src.clone().
clone_from_default(z, src) == clone(src)

\* clone_from whose reuse arm appends the elements of src to those of the
\* target instead of replacing them.
clone_from_appends(z, src) ==
    CASE z.tag = "Many" /\ src.tag = "Many"
            /\ (z.many.cap >= Len(src.many.buf) \/ Len(src.many.buf) > 1) ->
            {Many(w) : w \in VecExtend(z.many, src.many.buf)}
      [] OTHER -> clone(src)

\* Clone::clone_from
clone_from(z, src) ==
    CASE z.tag = "Many" /\ src.tag = "Many"
            /\ (z.many.cap >= Len(src.many.buf) \/ Len(src.many.buf) > 1) ->
            {Many(w) : w \in VecCloneFrom(z.many, src.many)}
      [] src.tag = "Many" ->
            CASE Len(src.many.buf) = 0 -> {Zero}
              [] Len(src.many.buf) = 1 -> {One(src.many.buf[1])}
              [] OTHER -> {Many(w) : w \in VecClone(src.many)}
      [] OTHER -> clone(src)

\* from_iter that collects into a Vec whatever the number of items.
from_iter_always_many(xs) == {Many(w) : w \in VecExtend(VecNew, xs)}

\* from_iter that stops after the first two items.
from_iter_drops_rest(xs) ==
    IF xs = <<>>
    THEN {Zero}
    ELSE IF Tail(xs) = <<>>
    THEN {One(Head(xs))}
    ELSE {Many(b) :
            b \in UNION {VecPush(a, xs[2]) :
                    a \in UNION {VecPush(m, xs[1]) : m \in VecWithCapacity(2)}}}

\* FromIterator::from_iter
from_iter(xs) ==
    IF xs = <<>>
    THEN {Zero}
    ELSE IF Tail(xs) = <<>>
    THEN {One(Head(xs))}
    ELSE LET first == xs[1]
             second == xs[2]
             iter == Tail(Tail(xs))
         IN  {Many(w) :
                w \in UNION {VecExtend(b, iter) :
                        b \in UNION {VecPush(a, second) :
                                a \in UNION {VecPush(m, first) :
                                        m \in UNION {VecWithCapacity(h + 2) :
                                                h \in SizeHints(iter)}}}}}

\* extend without the short-circuit on an empty input: the state is taken and
\* rebuilt as a Vec whatever the input.
extend_always_takes(z, xs) ==
    {Many(w) : w \in VecExtend(IF z.tag = "Zero" THEN VecNew
                               ELSE IF z.tag = "One" THEN VecOf(z.one)
                               ELSE z.many, xs)}

\* extend whose One arm pushes the first new item before the element held.
extend_one_after_first(z, xs) ==
    IF xs = <<>>
    THEN {z}
    ELSE CASE z.tag = "Zero" -> {One(Head(xs))}
           [] z.tag = "One" ->
                {Many(w) : w \in VecExtend(VecNew, <<Head(xs), z.one>> \o Tail(xs))}
           [] z.tag = "Many" -> {Many(w) : w \in VecExtend(z.many, xs)}

\* Extend::extend
extend(z, xs) ==
    IF xs = <<>>
    THEN {z}
    ELSE LET first == Head(xs)
             iter == Tail(xs)
             t == take(z)
         IN  CASE t.ret.tag = "Zero" -> {One(first)}
               [] t.ret.tag = "One" ->
                    {Many(w) :
                       w \in UNION {VecExtend(b, iter) :
                               b \in UNION {VecPush(a, first) :
                                       a \in UNION {VecPush(m, t.ret.one) :
                                               m \in UNION {VecWithCapacity(h + 2) :
                                                       h \in SizeHints(iter)}}}}}
               [] t.ret.tag = "Many" ->
                    {Many(w) :
                       w \in UNION {VecExtend(b, iter) :
                               b \in UNION {VecPush(a, first) :
                                       a \in UNION {VecReserve(t.ret.many, h + 2) :
                                               h \in SizeHints(iter)}}}}

\* ------------------------------------------------------------- slices
\* <[T] as PartialEq>::eq: same length and equal element by element.
SliceEq(a, b) == Len(a) = Len(b) /\ \A i \in 1 .. Len(a) : a[i] = b[i]

\* <[T] as Ord>::cmp: the first differing element decides, then the lengths.
RECURSIVE SliceCmp(_, _)
SliceCmp(a, b) ==
    CASE a = <<>> /\ b = <<>> -> "Equal"
      [] a = <<>> -> "Less"
      [] b = <<>> -> "Greater"
      [] Head(a) < Head(b) -> "Less"
      [] Head(a) > Head(b) -> "Greater"
      [] OTHER -> SliceCmp(Tail(a), Tail(b))

\* <[T] as Hash>::hash: the length, then every element, written to the hasher
\* (the hasher's state is the sequence of words written to it).
SliceHash(s, state) == state \o <<Len(s)>> \o s

\* eq as #[derive(PartialEq)] would give it: the variants must agree too.
eq_derived(z, other) == z.tag = other.tag /\ SliceEq(deref(z), deref(other))

\* PartialEq::eq
eq(z, other) == SliceEq(deref(z), deref(other))

\* Ord::cmp
cmp(z, other) == SliceCmp(deref(z), deref(other))

\* PartialOrd::partial_cmp
partial_cmp(z, other) == Some(SliceCmp(deref(z), deref(other)))

\* Hash::hash
hash(z, state) == SliceHash(deref(z), state)

\* ------------------------------------------------------------- IntoIter<T>
\* vec::IntoIter<T>: the buffer and the position of the next element.
VecIntoIter(v) == [buf |-> v.buf, ptr |-> 1]

\* vec::IntoIter::next
VecIterNext(it) ==
    IF it.ptr > Len(it.buf)
    THEN [it |-> it, ret |-> None]
    ELSE [it |-> [it EXCEPT !.ptr = it.ptr + 1], ret |-> Some(it.buf[it.ptr])]

\* vec::IntoIter::as_slice
VecIterAsSlice(it) == SubSeq(it.buf, it.ptr, Len(it.buf))

\* Zom::into_iter
into_iter(z) ==
    [inner |-> CASE z.tag = "Zero" -> [tag |-> "Zero"]
                 [] z.tag = "One" -> [tag |-> "One", one |-> z.one]
                 [] z.tag = "Many" -> [tag |-> "Many", many |-> VecIntoIter(z.many)]]

\* as_slice that returns the whole buffer of the Vec iterator, the elements
\* already returned included.
as_slice_whole_buffer(it) ==
    CASE it.inner.tag = "Zero" -> <<>>
      [] it.inner.tag = "One" -> <<it.inner.one>>
      [] it.inner.tag = "Many" -> it.inner.many.buf

\* IntoIter::as_slice
as_slice(it) ==
    CASE it.inner.tag = "Zero" -> <<>>
      [] it.inner.tag = "One" -> <<it.inner.one>>
      [] it.inner.tag = "Many" -> VecIterAsSlice(it.inner.many)

\* next that does not put the Vec iterator back after advancing it.
next_forgets_many(it) ==
    CASE it.inner.tag = "Zero" -> [it |-> [inner |-> [tag |-> "Zero"]], ret |-> None]
      [] it.inner.tag = "One" ->
            [it |-> [inner |-> [tag |-> "Zero"]], ret |-> Some(it.inner.one)]
      [] it.inner.tag = "Many" ->
            [it |-> [inner |-> [tag |-> "Zero"]],
             ret |-> VecIterNext(it.inner.many).ret]

\* Iterator::next for IntoIter
next(it) ==
    CASE it.inner.tag = "Zero" -> [it |-> [inner |-> [tag |-> "Zero"]], ret |-> None]
      [] it.inner.tag = "One" ->
            [it |-> [inner |-> [tag |-> "Zero"]], ret |-> Some(it.inner.one)]
      [] it.inner.tag = "Many" ->
            LET n == VecIterNext(it.inner.many)
            IN  [it |-> [inner |-> [tag |-> "Many", many |-> n.it]], ret |-> n.ret]

\* ExactSizeIterator::len
len(it) == Len(as_slice(it))

\* Iterator::size_hint
size_hint(it) == <<Len(as_slice(it)), Some(Len(as_slice(it)))>>

\* ------------------------------------------------------------- the program
\* The binding of a container that was moved out of (into_iter takes self by
\* value): no operation applies to it any more.
Moved == [tag |-> "Moved"]

\* The containers passed by reference whose content is s, in every variant that
\* can hold it (the capacity of such a container is never read).
ZomsOf(s) ==
    (IF s = <<>> THEN {Zero} ELSE {})
        \cup (IF Len(s) = 1 THEN {One(s[1])} ELSE {})
        \cup {Many([buf |-> s, cap |-> Len(s)])}

\* No iterator was made yet.
NoIter == [inner |-> [tag |-> "None"]]

\* zom:     the container under test
\* last:    the last operation: its name, the container before it, its
\*          argument and what it returned
\* flat:    a plain Vec<T> (its elements) run side by side with zom (SpecFlat)
\* fret:    what the last operation on the plain Vec returned
\* iter:    the consuming iterator made from zom, or NoIter
\* orig:    the slice view of the container into_iter consumed
\* yielded: the elements next() has returned so far
\* nones:   the number of next() calls that returned None (at most MaxNones)
\* peak:    the largest number of elements zom has held so far (SpecPeak)
\* pc:      "idle" between calls, "taken" inside a call that has taken the
\*          state of zom out and not written the new state yet (SpecSteps)
\* call:    the call in progress: the state it took, its input and what it
\*          has built so far (SpecSteps)
VARIABLES zom, last, flat, fret, iter, orig, yielded, nones, peak, pc, call

vars == <<zom, last, flat, fret, iter, orig, yielded, nones, peak, pc, call>>

stepVars == <<pc, call>>

\* No call is in progress.
NoCall == [op |-> "none"]

flatVars == <<flat, fret>>

iterVars == <<iter, orig, yielded, nones>>

\* next() is called at most MaxNones times on an exhausted iterator.
MaxNones == 2

Op(op, pre, arg, ret) == [op |-> op, pre |-> pre, arg |-> arg, ret |-> ret]

Live == zom.tag # "Moved"

\* Vec::pop on the plain Vec.
FlatPop(f) ==
    IF f = <<>>
    THEN [f |-> f, ret |-> None]
    ELSE [f |-> SubSeq(f, 1, Len(f) - 1), ret |-> Some(f[Len(f)])]

\* let mut zom = Zom::default();
Init ==
    /\ zom = Zero
    /\ last = Op("default", Zero, <<>>, None)
    /\ flat = <<>>
    /\ fret = None
    /\ iter = NoIter
    /\ orig = <<>>
    /\ yielded = <<>>
    /\ nones = 0
    /\ peak = 0
    /\ pc = "idle"
    /\ call = NoCall

\* The calls on the container: what each does to zom, and its record in last.
CallPush(val) ==
    /\ Live
    /\ Len(deref(zom)) < MaxLen
    /\ \E z \in push(zom, val) : zom' = z
    /\ last' = Op("push", zom, val, None)

CallPop ==
    /\ Live
    /\ zom' = pop(zom).z
    /\ last' = Op("pop", zom, <<>>, pop(zom).ret)

CallToVec ==
    /\ Live
    /\ zom' = to_vec(zom)
    /\ last' = Op("to_vec", zom, <<>>, None)

CallClear ==
    /\ Live
    /\ zom' = clear(zom)
    /\ last' = Op("clear", zom, <<>>, None)

CallShrinkToFit ==
    /\ Live
    /\ \E z \in shrink_to_fit(zom) : zom' = z
    /\ last' = Op("shrink_to_fit", zom, <<>>, None)

CallExtend(xs) ==
    /\ Live
    /\ Len(deref(zom)) + Len(xs) <= MaxLen
    /\ \E z \in extend(zom, xs) : zom' = z
    /\ last' = Op("extend", zom, xs, None)

\* zom.push(val)
Push == (\E val \in Val : CallPush(val)) /\ UNCHANGED <<flatVars, iterVars, peak, stepVars>>

\* zom.pop()
Pop == CallPop /\ UNCHANGED <<flatVars, iterVars, peak, stepVars>>

\* zom.to_vec()
ToVec == CallToVec /\ UNCHANGED <<flatVars, iterVars, peak, stepVars>>

\* zom.clear()
Clear == CallClear /\ UNCHANGED <<flatVars, iterVars, peak, stepVars>>

\* zom.shrink_to_fit()
ShrinkToFit == CallShrinkToFit /\ UNCHANGED <<flatVars, iterVars, peak, stepVars>>

\* zom.take()
Take ==
    /\ Live
    /\ zom' = take(zom).z
    /\ last' = Op("take", zom, <<>>, take(zom).ret)
    /\ UNCHANGED <<flatVars, iterVars, peak, stepVars>>

\* zom.extend(xs)
Extend ==
    (\E xs \in Inputs : CallExtend(xs)) /\ UNCHANGED <<flatVars, iterVars, peak, stepVars>>

\* zom.clone()
Clone ==
    /\ Live
    /\ \E c \in clone(zom) : last' = Op("clone", zom, <<>>, c)
    /\ UNCHANGED <<zom, flatVars, iterVars, peak, stepVars>>

\* zom.clone_from(&src)
CloneFrom ==
    \E s \in Inputs : \E src \in ZomsOf(s) :
        /\ Live
        /\ \E z \in clone_from(zom, src) : zom' = z
        /\ last' = Op("clone_from", zom, src, None)
        /\ UNCHANGED <<flatVars, iterVars, peak, stepVars>>

\* zom = xs.into_iter().collect(): from_iter has no receiver, and the record
\* keeps the container it makes.
FromIter ==
    \E xs \in Inputs :
        /\ Live
        /\ \E z \in from_iter(xs) : zom' = z /\ last' = Op("from_iter", z, xs, None)
        /\ UNCHANGED <<flatVars, iterVars, peak, stepVars>>

\* zom == other, zom.cmp(&other), zom.partial_cmp(&other), and the hashes of both
Compare ==
    \E s \in Inputs : \E other \in ZomsOf(s) :
        /\ Live
        /\ last' = Op("compare", zom, other,
                      [eq |-> eq(zom, other),
                       cmp |-> cmp(zom, other),
                       partial_cmp |-> partial_cmp(zom, other),
                       hash |-> hash(zom, <<>>),
                       hash_other |-> hash(other, <<>>)])
        /\ UNCHANGED <<zom, flatVars, iterVars, peak, stepVars>>

\* let zom2: Zom<T> = zom.iter().cloned().collect();
RoundTrip ==
    /\ Live
    /\ \E c \in from_iter(iter_cloned(zom)) : last' = Op("round_trip", zom, <<>>, c)
    /\ UNCHANGED <<zom, flatVars, iterVars, peak, stepVars>>

\* let iter = zom.into_iter();
IntoIter ==
    /\ Live
    /\ iter' = into_iter(zom)
    /\ orig' = deref(zom)
    /\ zom' = Moved
    /\ last' = Op("into_iter", zom, <<>>, None)
    /\ UNCHANGED <<flatVars, yielded, nones, peak, stepVars>>

\* iter.next()
IterNext ==
    /\ iter # NoIter
    /\ nones < MaxNones
    /\ iter' = next(iter).it
    /\ yielded' = IF next(iter).ret.some
                  THEN Append(yielded, next(iter).ret.val)
                  ELSE yielded
    /\ nones' = IF next(iter).ret.some THEN nones ELSE nones + 1
    /\ last' = Op("next", iter, <<>>, next(iter).ret)
    /\ UNCHANGED <<zom, flatVars, orig, peak, stepVars>>

Next ==
    \/ Push
    \/ Pop
    \/ ToVec
    \/ Clear
    \/ ShrinkToFit
    \/ Take
    \/ Extend
    \/ Clone
    \/ CloneFrom
    \/ FromIter
    \/ Compare
    \/ RoundTrip
    \/ IntoIter
    \/ IterNext

Spec == Init /\ [][Next]_vars

\* The container and a plain Vec<T> side by side: every call is made on both
\* (shrink_to_fit and to_vec do nothing to the elements of the plain Vec).
FlatPush ==
    \E val \in Val :
        /\ CallPush(val)
        /\ flat' = Append(flat, val)
        /\ fret' = None
        /\ UNCHANGED <<iterVars, peak, stepVars>>

FlatPopBoth ==
    /\ CallPop
    /\ flat' = FlatPop(flat).f
    /\ fret' = FlatPop(flat).ret
    /\ UNCHANGED <<iterVars, peak, stepVars>>

FlatClear ==
    /\ CallClear
    /\ flat' = <<>>
    /\ fret' = None
    /\ UNCHANGED <<iterVars, peak, stepVars>>

FlatShrinkToFit ==
    /\ CallShrinkToFit
    /\ flat' = flat
    /\ fret' = None
    /\ UNCHANGED <<iterVars, peak, stepVars>>

FlatToVec ==
    /\ CallToVec
    /\ flat' = flat
    /\ fret' = None
    /\ UNCHANGED <<iterVars, peak, stepVars>>

NextFlat ==
    \/ FlatPush
    \/ FlatPopBoth
    \/ FlatClear
    \/ FlatShrinkToFit
    \/ FlatToVec

SpecFlat == Init /\ [][NextFlat]_vars

\* The container with the largest number of elements it has held recorded,
\* under push, pop, clear, shrink_to_fit and extend with an input of at most
\* one item.
Max(a, b) == IF a >= b THEN a ELSE b

PeakAfter == peak' = Max(peak, Len(deref(zom')))

PeakPush ==
    \E val \in Val :
        /\ CallPush(val)
        /\ PeakAfter
        /\ UNCHANGED <<flatVars, iterVars, stepVars>>

PeakPop == CallPop /\ PeakAfter /\ UNCHANGED <<flatVars, iterVars, stepVars>>

PeakClear == CallClear /\ PeakAfter /\ UNCHANGED <<flatVars, iterVars, stepVars>>

PeakShrinkToFit ==
    CallShrinkToFit /\ PeakAfter /\ UNCHANGED <<flatVars, iterVars, stepVars>>

PeakExtend ==
    \E xs \in SeqsUpTo(1) :
        /\ CallExtend(xs)
        /\ PeakAfter
        /\ UNCHANGED <<flatVars, iterVars, stepVars>>

NextPeak ==
    \/ PeakPush
    \/ PeakPop
    \/ PeakClear
    \/ PeakShrinkToFit
    \/ PeakExtend

SpecPeak == Init /\ [][NextPeak]_vars

\* The calls that take the state out and write the new state back (pop, to_vec,
\* shrink_to_fit, extend), step by step: the take, for extend the items pulled
\* from the input one at a time, and the write at the end.  A call that has
\* taken the state can be interrupted (a panic unwinding out of it, such as
\* one raised by the input iterator of extend), which drops what it holds.
InCall(op, taken, arg, rest, built) ==
    [op |-> op, taken |-> taken, arg |-> arg, rest |-> rest, built |-> built]

\* The Vec the arm of extend for `taken` starts with, `first` pushed.
ExtendStart(taken, first, rest) ==
    CASE taken.tag = "Zero" -> {VecNew}
      [] taken.tag = "One" ->
            UNION {VecPush(a, first) :
                a \in UNION {VecPush(m, taken.one) :
                        m \in UNION {VecWithCapacity(h + 2) : h \in SizeHints(rest)}}}
      [] taken.tag = "Many" ->
            UNION {VecPush(a, first) :
                a \in UNION {VecReserve(taken.many, h + 2) : h \in SizeHints(rest)}}

\* self.take() at the head of pop, to_vec and shrink_to_fit
StepTake ==
    \E op \in {"pop", "to_vec", "shrink_to_fit"} :
        /\ pc = "idle"
        /\ Live
        /\ zom' = take(zom).z
        /\ call' = InCall(op, take(zom).ret, <<>>, <<>>, VecNew)
        /\ pc' = "taken"
        /\ UNCHANGED <<last, flatVars, iterVars, peak>>

\* extend: iter.next() returned Some(first), then self.take() and the first
\* pushes of the arm
StepExtendTake ==
    \E xs \in Inputs :
        /\ pc = "idle"
        /\ Live
        /\ xs # <<>>
        /\ Len(deref(zom)) + Len(xs) <= MaxLen
        /\ zom' = take(zom).z
        /\ \E b \in ExtendStart(take(zom).ret, Head(xs), Tail(xs)) :
                call' = InCall("extend", take(zom).ret, xs, Tail(xs), b)
        /\ pc' = "taken"
        /\ UNCHANGED <<last, flatVars, iterVars, peak>>

\* extend: many.extend(iter) pulls the next item and pushes it
StepExtendPull ==
    /\ pc = "taken"
    /\ call.op = "extend"
    /\ call.taken.tag # "Zero"
    /\ call.rest # <<>>
    /\ \E b \in VecPush(call.built, Head(call.rest)) :
            call' = [call EXCEPT !.rest = Tail(call.rest), !.built = b]
    /\ UNCHANGED <<zom, last, pc, flatVars, iterVars, peak>>

\* the end of the call: *self = this (pop on Zero and One writes nothing)
StepFinish ==
    /\ pc = "taken"
    /\ \/ /\ call.op = "pop"
          /\ zom' = IF call.taken.tag = "Many" THEN Many(VecPop(call.taken.many).vec)
                    ELSE zom
          /\ last' = Op("pop", call.taken, <<>>,
                        CASE call.taken.tag = "Zero" -> None
                          [] call.taken.tag = "One" -> Some(call.taken.one)
                          [] call.taken.tag = "Many" -> VecPop(call.taken.many).ret)
       \/ /\ call.op = "to_vec"
          /\ zom' = Many(CASE call.taken.tag = "Zero" -> VecNew
                           [] call.taken.tag = "One" -> VecOf(call.taken.one)
                           [] call.taken.tag = "Many" -> call.taken.many)
          /\ last' = Op("to_vec", call.taken, <<>>, None)
       \/ /\ call.op = "shrink_to_fit"
          /\ \E z \in shrink_to_fit(call.taken) : zom' = z
          /\ last' = Op("shrink_to_fit", call.taken, <<>>, None)
       \/ /\ call.op = "extend"
          /\ call.taken.tag = "Zero" \/ call.rest = <<>>
          /\ zom' = IF call.taken.tag = "Zero" THEN One(Head(call.arg))
                    ELSE Many(call.built)
          /\ last' = Op("extend", call.taken, call.arg, None)
    /\ pc' = "idle"
    /\ call' = NoCall
    /\ UNCHANGED <<flatVars, iterVars, peak>>

\* the call unwinds before writing anything back
StepInterrupt ==
    /\ pc = "taken"
    /\ pc' = "idle"
    /\ call' = NoCall
    /\ last' = Op("interrupted", call.taken, call, None)
    /\ UNCHANGED <<zom, flatVars, iterVars, peak>>

\* between calls: push, take and from_iter as whole calls
StepWhole == pc = "idle" /\ (Push \/ Take \/ FromIter)

NextSteps ==
    \/ StepTake
    \/ StepExtendTake
    \/ StepExtendPull
    \/ StepFinish
    \/ StepInterrupt
    \/ StepWhole

SpecSteps == Init /\ [][NextSteps]_vars

\* ------------------------------------------------------------- properties
\* The content of a container, variant by variant: Zero -> [], One(x) -> [x],
\* Many(v) -> v.
Flatten(z) ==
    IF z.tag = "Zero" THEN <<>>
    ELSE IF z.tag = "One" THEN <<z.one>>
    ELSE z.many.buf

\* The lexicographic order of two sequences.
LexOrder(a, b) ==
    IF a = b THEN "Equal"
    ELSE IF \E i \in 1 .. Len(b) :
                /\ \A j \in 1 .. (i - 1) : j <= Len(a) /\ a[j] = b[j]
                /\ (i > Len(a) \/ (i - 1 < Len(a) /\ a[i] < b[i]))
         THEN "Less"
         ELSE "Greater"

\* C1: after extend(xs) the slice view of the container is its slice view
\* before, followed by all the elements of xs in order.
C1_ExtendAppendsAll ==
    last.op = "extend" => deref(zom) = deref(last.pre) \o last.arg

\* C2: run from empty under push, pop, clear, shrink_to_fit and to_vec, the
\* slice view of the container equals the plain sequence after every step, and
\* every pop returns the same value on both.
C2_FlatSequence ==
    /\ deref(zom) = flat
    /\ last.op = "pop" => last.ret = fret

\* A pop emptied a Many container and both runs returned the element.
C2_Witness ==
    /\ last.op = "pop"
    /\ last.pre.tag = "Many"
    /\ last.ret.some
    /\ last.ret = fret
    /\ zom.tag = "Many"
    /\ flat = <<>>

\* C3: pop on Many with at least one element returns the last element and
\* leaves the container Many with the other elements (also 0 or 1 of them);
\* pop on One(v) returns v and leaves Zero.
C3_PopNoCollapse ==
    last.op = "pop" =>
        /\ (last.pre.tag = "Many" /\ last.pre.many.buf # <<>>) =>
              /\ last.ret = Some(last.pre.many.buf[Len(last.pre.many.buf)])
              /\ zom.tag = "Many"
              /\ zom.many.buf =
                    SubSeq(last.pre.many.buf, 1, Len(last.pre.many.buf) - 1)
        /\ last.pre.tag = "One" => (last.ret = Some(last.pre.one) /\ zom = Zero)

\* A pop took the only element of a Many container, which stays Many.
C3_Witness ==
    /\ last.op = "pop"
    /\ last.pre.tag = "Many"
    /\ Len(last.pre.many.buf) = 1
    /\ zom.tag = "Many"
    /\ zom.many.buf = <<>>

\* C4: eq, cmp, partial_cmp and hash of two containers, in any variants, are
\* those of their contents: eq holds exactly when the contents are the same
\* sequence, cmp and partial_cmp give the lexicographic order of the contents,
\* and the hash is the hash of the content, so equal contents hash alike.
C4_ContentOnly ==
    last.op = "compare" =>
        LET a == Flatten(last.pre)
            b == Flatten(last.arg)
        IN  /\ last.ret.eq <=> (a = b)
            /\ last.ret.cmp = LexOrder(a, b)
            /\ last.ret.partial_cmp = Some(LexOrder(a, b))
            /\ last.ret.hash = SliceHash(a, <<>>)
            /\ last.ret.hash_other = SliceHash(b, <<>>)
            /\ (a = b) => last.ret.hash = last.ret.hash_other

\* One(x) was compared with Many([x]) and found equal.
C4_Witness ==
    /\ last.op = "compare"
    /\ last.pre.tag = "One"
    /\ last.arg.tag = "Many"
    /\ last.ret.eq
    /\ last.ret.cmp = "Equal"
    /\ last.ret.hash = last.ret.hash_other

\* C5: shrink_to_fit turns Many with no element into Zero, Many with exactly
\* one element x into One(x), leaves Many with two or more elements Many with
\* the same elements in the same order, and leaves Zero and One unchanged.
C5_ShrinkToFit ==
    last.op = "shrink_to_fit" =>
        /\ last.pre.tag = "Many" =>
              CASE Len(last.pre.many.buf) = 0 -> zom = Zero
                [] Len(last.pre.many.buf) = 1 -> zom = One(last.pre.many.buf[1])
                [] OTHER -> zom.tag = "Many" /\ zom.many.buf = last.pre.many.buf
        /\ last.pre.tag # "Many" => zom = last.pre

\* shrink_to_fit collapsed a Many container with one element to One.
C5_Witness ==
    /\ last.op = "shrink_to_fit"
    /\ last.pre.tag = "Many"
    /\ Len(last.pre.many.buf) = 1
    /\ zom.tag = "One"

\* C6: clone leaves the source unchanged and returns its content in the
\* minimal representation: Zero for no element, One(x) for exactly one, Many
\* (with the same elements in the same order) only for two or more.
C6_CloneMinimal ==
    last.op = "clone" =>
        /\ zom = last.pre
        /\ CASE Len(deref(last.pre)) = 0 -> last.ret = Zero
             [] Len(deref(last.pre)) = 1 -> last.ret = One(deref(last.pre)[1])
             [] OTHER -> /\ last.ret.tag = "Many"
                         /\ last.ret.many.buf = deref(last.pre)

\* A Many container holding one element was cloned into One.
C6_Witness ==
    /\ last.op = "clone"
    /\ last.pre.tag = "Many"
    /\ Len(last.pre.many.buf) = 1
    /\ last.ret.tag = "One"

\* C7 as stated: the target stays Many whenever it is Many and either its
\* capacity is at least the number of elements of src, whatever the variant of
\* src, or src has two or more elements; otherwise it becomes src.clone().
C7_ReuseWhateverSrc ==
    last.op = "clone_from" =>
        IF /\ last.pre.tag = "Many"
           /\ \/ last.pre.many.cap >= Len(deref(last.arg))
              \/ Len(deref(last.arg)) >= 2
        THEN zom.tag = "Many"
        ELSE zom \in clone(last.arg)

\* C7, amended: the target stays Many, holding the elements of src, whenever
\* the target and src are both Many and either the target's capacity is at
\* least the number of elements of src (the capacity is then kept) or src has
\* two or more elements; in every other case, so whenever src is Zero or One,
\* the target becomes src.clone(), the minimal representation of src's content.
C7_ReuseWhenSrcMany ==
    last.op = "clone_from" =>
        IF /\ last.pre.tag = "Many"
           /\ last.arg.tag = "Many"
           /\ \/ last.pre.many.cap >= Len(last.arg.many.buf)
              \/ Len(last.arg.many.buf) >= 2
        THEN /\ zom.tag = "Many"
             /\ zom.many.buf = last.arg.many.buf
             /\ last.pre.many.cap >= Len(last.arg.many.buf) =>
                    zom.many.cap = last.pre.many.cap
        ELSE /\ zom \in clone(last.arg)
             /\ Len(deref(last.arg)) = 0 => zom = Zero
             /\ Len(deref(last.arg)) = 1 => zom = One(deref(last.arg)[1])

\* A Many target with room took the single element of a Many src and stayed
\* Many.
C7_Witness ==
    /\ last.op = "clone_from"
    /\ last.pre.tag = "Many"
    /\ last.arg.tag = "Many"
    /\ Len(last.arg.many.buf) = 1
    /\ last.pre.many.cap >= 1
    /\ zom.tag = "Many"
    /\ zom.many.buf = last.arg.many.buf

\* C8: from_iter over n items gives Zero for n = 0, One(item) for n = 1, and
\* for n >= 2 Many holding the n items in input order with capacity at least n.
C8_FromIterVariant ==
    last.op = "from_iter" =>
        CASE Len(last.arg) = 0 -> zom = Zero
          [] Len(last.arg) = 1 -> zom = One(last.arg[1])
          [] OTHER -> /\ zom.tag = "Many"
                      /\ zom.many.buf = last.arg
                      /\ zom.many.cap >= Len(last.arg)

\* Two or more items were collected into Many.
C8_Witness ==
    /\ last.op = "from_iter"
    /\ Len(last.arg) >= 2
    /\ zom.tag = "Many"
    /\ zom.many.buf = last.arg

\* C9: extend with an empty input leaves the container as it was: same
\* variant, same elements, same capacity.
C9_ExtendEmpty ==
    (last.op = "extend" /\ last.arg = <<>>) => zom = last.pre

\* extend with an empty input ran on a Many container holding one element.
C9_Witness ==
    /\ last.op = "extend"
    /\ last.arg = <<>>
    /\ last.pre.tag = "Many"
    /\ Len(last.pre.many.buf) = 1
    /\ zom = last.pre

\* C10: the elements next() has returned are always a prefix of the content of
\* the consumed container, each next() that returns an element returns the
\* first one not returned yet, next() returns None only once all of them were
\* returned, and so never returns an element after a None.
C10_YieldsInOrderThenNone ==
    iter # NoIter =>
        /\ Len(yielded) <= Len(orig)
        /\ yielded = SubSeq(orig, 1, Len(yielded))
        /\ nones > 0 => yielded = orig
        /\ last.op = "next" =>
              IF last.ret.some
              THEN last.ret.val = orig[Len(yielded)] /\ nones = 0
              ELSE yielded = orig /\ nones > 0

\* The iterator of a container with two or more elements returned them all and
\* then None on every later call.
C10_Witness ==
    /\ iter # NoIter
    /\ Len(orig) >= 2
    /\ yielded = orig
    /\ nones = MaxNones
    /\ last.op = "next"
    /\ ~last.ret.some

\* C11: collecting c.iter().cloned() gives a container equal to c, with the
\* same elements in the same order, whatever the variant of c, and c is
\* unchanged.
C11_RoundTrip ==
    last.op = "round_trip" =>
        /\ eq(last.ret, last.pre)
        /\ Flatten(last.ret) = Flatten(last.pre)
        /\ zom = last.pre

\* A Many container holding three elements was collected again.
C11_Witness ==
    /\ last.op = "round_trip"
    /\ last.pre.tag = "Many"
    /\ Len(last.pre.many.buf) = 3
    /\ last.ret.tag = "Many"
    /\ last.ret.many.buf = last.pre.many.buf

\* C12: shrink_to_fit is idempotent: applied to what shrink_to_fit left, it
\* leaves the same variant and the same content.
C12_ShrinkIdempotent ==
    last.op = "shrink_to_fit" =>
        \A z \in shrink_to_fit(zom) : z.tag = zom.tag /\ deref(z) = deref(zom)

\* shrink_to_fit collapsed a Many container to One, which a second
\* shrink_to_fit leaves as it is.
C12_Witness ==
    /\ last.op = "shrink_to_fit"
    /\ last.pre.tag = "Many"
    /\ zom.tag = "One"
    /\ shrink_to_fit(zom) = {zom}

\* C13: clear turns One into Zero, keeps Zero, and keeps Many as Many with no
\* element; shrink_to_fit after clear leaves Zero.
C13_ClearThenShrink ==
    last.op = "clear" =>
        /\ last.pre.tag = "One" => zom = Zero
        /\ last.pre.tag = "Zero" => zom = Zero
        /\ last.pre.tag = "Many" => (zom.tag = "Many" /\ zom.many.buf = <<>>)
        /\ shrink_to_fit(zom) = {Zero}

\* clear emptied a Many container with two or more elements, which stays Many
\* until shrink_to_fit makes it Zero.
C13_Witness ==
    /\ last.op = "clear"
    /\ last.pre.tag = "Many"
    /\ Len(last.pre.many.buf) >= 2
    /\ zom.tag = "Many"
    /\ zom.many.buf = <<>>
    /\ shrink_to_fit(zom) = {Zero}

\* C14: pop on a container holding no element returns None and leaves the
\* container exactly as it was, Zero or Many([]), so that the next pop finds
\* the same container again.
C14_PopEmpty ==
    (last.op = "pop" /\ deref(last.pre) = <<>>) =>
        /\ last.ret = None
        /\ zom = last.pre
        /\ pop(zom) = [z |-> zom, ret |-> None]

\* pop returned None on an empty Many container, which is still Many([]).
C14_Witness ==
    /\ last.op = "pop"
    /\ last.pre.tag = "Many"
    /\ last.pre.many.buf = <<>>
    /\ last.ret = None
    /\ zom = last.pre

\* C16: at every point of consumption as_slice() is the part of the original
\* content not returned yet: the elements returned so far followed by
\* as_slice() are the original content; len() and size_hint() report exactly
\* its length; len() drops by one on each next() that returns an element and
\* is 0, and stays 0, once next() returns None.
C16_RemainingSlice ==
    iter # NoIter =>
        /\ yielded \o as_slice(iter) = orig
        /\ len(iter) = Len(orig) - Len(yielded)
        /\ size_hint(iter) = <<Len(orig) - Len(yielded), Some(Len(orig) - Len(yielded))>>
        /\ last.op = "next" =>
              IF last.ret.some
              THEN len(iter) = len(last.pre) - 1
              ELSE len(iter) = 0 /\ len(last.pre) = 0

\* The iterator of a container with three elements has returned one of them.
C16_Witness ==
    /\ iter # NoIter
    /\ last.op = "next"
    /\ Len(orig) = 3
    /\ Len(yielded) = 1
    /\ as_slice(iter) = SubSeq(orig, 2, 3)
    /\ len(iter) = 2

\* C17: extend with a non-empty input turns One(x) into Many holding x and
\* then the items in order, keeps Many as Many with the items appended, and
\* turns Zero into One(item) when the input has exactly one item.
C17_ExtendVariant ==
    (last.op = "extend" /\ last.arg # <<>>) =>
        /\ last.pre.tag = "One" =>
              (zom.tag = "Many" /\ zom.many.buf = <<last.pre.one>> \o last.arg)
        /\ last.pre.tag = "Many" =>
              (zom.tag = "Many" /\ zom.many.buf = last.pre.many.buf \o last.arg)
        /\ (last.pre.tag = "Zero" /\ Len(last.arg) = 1) => zom = One(last.arg[1])

\* extend with two items turned One(x) into Many([x, a, b]).
C17_Witness ==
    /\ last.op = "extend"
    /\ last.pre.tag = "One"
    /\ Len(last.arg) = 2
    /\ zom.tag = "Many"
    /\ zom.many.buf = <<last.pre.one>> \o last.arg

\* C18: push, pop, clear, to_vec and extend leave a Many container Many,
\* whatever number of elements it ends with; push on Many([]) gives Many([v]).
C18_ManyAbsorbing ==
    (last.op \in {"push", "pop", "clear", "to_vec", "extend"} /\ last.pre.tag = "Many") =>
        /\ zom.tag = "Many"
        /\ (last.op = "push" /\ last.pre.many.buf = <<>>) =>
              zom.many.buf = <<last.arg>>

\* push on an empty Many container gave Many with that one element.
C18_Witness ==
    /\ last.op = "push"
    /\ last.pre.tag = "Many"
    /\ last.pre.many.buf = <<>>
    /\ zom.tag = "Many"
    /\ zom.many.buf = <<last.arg>>

\* C20: after target.clone_from(src) the slice view of the target is the
\* slice view of src, so that the target equals src and src.clone(), for
\* every variant, length and capacity of the target and every variant of src.
C20_CloneFromContent ==
    last.op = "clone_from" =>
        /\ deref(zom) = deref(last.arg)
        /\ eq(zom, last.arg)
        /\ \A c \in clone(last.arg) : eq(zom, c)

\* A Many target stayed Many with one element where src.clone() is One.
C20_Witness ==
    /\ last.op = "clone_from"
    /\ last.pre.tag = "Many"
    /\ last.arg.tag = "Many"
    /\ last.pre.many.buf # last.arg.many.buf
    /\ zom.tag = "Many"
    /\ Len(zom.many.buf) = 1
    /\ clone(last.arg) = {One(zom.many.buf[1])}
    /\ eq(zom, last.arg)

\* C19: from Zero, under push, pop, clear, shrink_to_fit and extend with at
\* most one item, as long as the container has never held more than one
\* element it is not Many: it is Zero when it holds nothing and One(x) when it
\* holds the single element x.
C19_NoVecUpToOne ==
    peak <= 1 =>
        /\ zom.tag # "Many"
        /\ Len(Flatten(zom)) = 0 => zom = Zero
        /\ Len(Flatten(zom)) = 1 => zom = One(Flatten(zom)[1])

\* The container went back to Zero by a pop after holding one element, without
\* ever being Many.
C19_Witness ==
    /\ peak = 1
    /\ last.op = "pop"
    /\ last.pre.tag = "One"
    /\ zom = Zero

\* C15: take leaves Zero and returns the state it found; from the take of pop,
\* to_vec, shrink_to_fit and extend (with a non-empty input) to the write at
\* their end the container is exactly Zero, so a call interrupted in between
\* leaves Zero; a call that runs to its end leaves what the whole operation
\* computes from the taken state.
C15_TakenIsZero ==
    /\ pc = "taken" => zom = Zero
    /\ last.op = "interrupted" => zom = Zero
    /\ last.op = "take" => (zom = Zero /\ last.ret = last.pre)
    /\ (pc = "idle" /\ last.op = "pop") => zom = pop(last.pre).z
    /\ (pc = "idle" /\ last.op = "to_vec") => zom = to_vec(last.pre)
    /\ (pc = "idle" /\ last.op = "shrink_to_fit") => zom \in shrink_to_fit(last.pre)
    /\ (pc = "idle" /\ last.op = "extend") => zom \in extend(last.pre, last.arg)

\* extend on a Many container was interrupted after it had pulled items of its
\* input, with more to come: the container is Zero.
C15_Witness ==
    /\ last.op = "interrupted"
    /\ last.arg.op = "extend"
    /\ last.pre.tag = "Many"
    /\ last.pre.many.buf # <<>>
    /\ last.arg.rest # <<>>
    /\ Len(last.arg.built.buf) > Len(last.pre.many.buf)
    /\ zom = Zero
====
